---- MODULE Spec2Model ----
\* Model of the Shenandoah root verifier
\* (src/hotspot/share/gc/shenandoah/shenandoahRootVerifier.cpp):
\* the RootTypes bitmask, the scoped ShenandoahGCStateResetter, and the three
\* walking entry points oops_do, roots_do and strong_roots_do with the two
\* weak-root sub-strategies.  A walk is one action; the requests it issues
\* to the external root sources are recorded, in order, in walk.trace.
EXTENDS FiniteSets, Integers, Sequences, TLC

\* ------------------------------------------------------------------ bounds
MaxGcState == 1        \* gc_state ranges over 0..MaxGcState
MaxToken == 2          \* the thread claim token is advanced up to MaxToken
NumThreads == 2        \* live Java threads
NumSerialPhases == 2   \* phases of WeakProcessorPhases::serial_iterator()
NumWeakStorages == 2   \* storages of OopStorageSet::weak_iterator()

\* -------------------------------------------------------------- RootTypes
\* A RootTypes value is an unsigned int used as a bitmask; it is modelled
\* by the set of its set bit positions (& is \cap, | is \cup, ~ the
\* complement within the 32 bit positions of a uint).
UintBits == 0..31

None == {}
CodeRoots == {0}
CLDGRoots == {1}
SerialRoots == {2}
JNIHandleRoots == {3}
WeakRoots == {4}
SerialWeakRoots == {5}
ConcurrentWeakRoots == {6}
StringDedupRoots == {7}
ThreadRoots == {8}
AllRoots ==
  CodeRoots \cup CLDGRoots \cup SerialRoots \cup JNIHandleRoots \cup WeakRoots
    \cup SerialWeakRoots \cup ConcurrentWeakRoots \cup StringDedupRoots
    \cup ThreadRoots

Categories ==
  {CodeRoots, CLDGRoots, SerialRoots, JNIHandleRoots, WeakRoots,
   SerialWeakRoots, ConcurrentWeakRoots, StringDedupRoots, ThreadRoots}

\* Mutant: combine intersecting the masks (& for |).
combine_and(t1, t2) == t1 \cap t2

\* static RootTypes combine(RootTypes t1, RootTypes t2)
combine(t1, t2) == t1 \cup t2

\* The sets a walker is constructed with and the arguments of excludes().
TypeInputs ==
  {None, AllRoots} \cup Categories
    \cup {combine(WeakRoots, SerialWeakRoots),
          combine(SerialWeakRoots, ConcurrentWeakRoots),
          combine(ConcurrentWeakRoots, ThreadRoots),
          combine(ConcurrentWeakRoots, JNIHandleRoots),
          combine(CodeRoots, CLDGRoots),
          combine(CodeRoots, ThreadRoots),
          combine(StringDedupRoots, ThreadRoots)}

ExcludeInputs ==
  {ThreadRoots, CodeRoots, WeakRoots, combine(WeakRoots, SerialWeakRoots)}

GcStates == 0..MaxGcState
JavaThreads == 1..NumThreads
EntryPoints == {"oops_do", "roots_do", "strong_roots_do"}

VARIABLES
  _types,                            \* ShenandoahRootVerifier::_types
  gc_state,                          \* ShenandoahHeap::_gc_state
  concurrent_weak_root_in_progress,  \* the heap's concurrent-weak-root flag
  safepoint,                         \* a global safepoint is active
  CodeCache_lock,                    \* held by the calling thread
  ClassLoaderDataGraph_lock,         \* held by the calling thread
  dedup_enabled,                     \* ShenandoahStringDedup::is_enabled()
  thread_claim_token,                \* Threads::_thread_claim_token
  threads_do_token,                  \* per thread: the token it was claimed with
  vm,                                \* "running", or "terminated" by a fatal assertion
  walk,                              \* the walk just performed (NoWalk otherwise)
  constructed_types,                 \* the types the walker was constructed with
  alg                                \* the RootTypes operation just applied (NoAlg otherwise)

vars ==
  <<_types, gc_state, concurrent_weak_root_in_progress, safepoint,
    CodeCache_lock, ClassLoaderDataGraph_lock, dedup_enabled,
    thread_claim_token, threads_do_token, vm, walk, constructed_types, alg>>

\* --------------------------------------------------- requests to sources
\* A request: the source function called, its argument, and whether a
\* CodeBlobClosure is passed along with the oop closure.
Req(src, arg) == [src |-> src, arg |-> arg, cf |-> FALSE]
BlobsDo == Req("CodeCache::blobs_do", 0)
CldDo == Req("ClassLoaderDataGraph::cld_do", 0)
RootsCldDo == Req("ClassLoaderDataGraph::roots_cld_do", 0)
JNIHandlesDo == Req("JNIHandles::oops_do", 0)
VMGlobalDo == Req("Universe::vm_global()->oops_do", 0)
WeakOopsDo == Req("WeakProcessor::weak_oops_do", 0)
PhaseDo(i) == Req("WeakProcessorPhases::processor", i)
StorageDo(i) == Req("OopStorage::oops_do", i)
DedupDo == Req("ShenandoahStringDedup::oops_do_slow", 0)
ThreadsSrc == "Threads::possibly_parallel_oops_do"
ThreadsDo(is_par, cf) == [src |-> ThreadsSrc, arg |-> IF is_par THEN 1 ELSE 0, cf |-> cf]

\* The progress of a walk: the requests issued so far, and whether an
\* assertion has terminated the VM.
Run0 == [trace |-> <<>>, fatal |-> FALSE]
Do(r, req) == IF r.fatal THEN r ELSE [r EXCEPT !.trace = Append(@, req)]
DoAll(r, reqs) == IF r.fatal THEN r ELSE [r EXCEPT !.trace = @ \o reqs]
Check(r, cond) == IF r.fatal \/ cond THEN r ELSE [r EXCEPT !.fatal = TRUE]

\* shenandoah_assert_safepoint()
shenandoah_assert_safepoint(r) == Check(r, safepoint)
\* shenandoah_assert_locked_or_safepoint(lock)
shenandoah_assert_locked_or_safepoint(r, lock) == Check(r, lock \/ safepoint)

\* ------------------------------------------------ ShenandoahRootVerifier
\* Mutant: verify accepting any common bit.
verify_any(type) == (_types \cap type) # {}

\* bool verify(RootTypes type) const
verify(type) == (_types \cap type) = type

\* Mutant: excludes toggling the bits (^ for & ~).
excludes_toggle(types) == (_types \cup types) \ (_types \cap types)

\* void excludes(RootTypes types): the new value of _types
excludes(types) == _types \cap (UintBits \ types)

\* void serial_weak_roots_do(OopClosure* cl)
serial_weak_roots_do(r) == DoAll(r, [i \in 1..NumSerialPhases |-> PhaseDo(i)])

\* void concurrent_weak_roots_do(OopClosure* cl)
concurrent_weak_roots_do(r) == DoAll(r, [i \in 1..NumWeakStorages |-> StorageDo(i)])

\* oops_do, one operator per if statement of its body
oops_do_code(r) ==
  IF verify(CodeRoots)
    THEN Do(shenandoah_assert_locked_or_safepoint(r, CodeCache_lock), BlobsDo)
    ELSE r

oops_do_cldg(r) ==
  IF verify(CLDGRoots)
    THEN Do(shenandoah_assert_locked_or_safepoint(r, ClassLoaderDataGraph_lock), CldDo)
    ELSE r

oops_do_serial(r) ==
  IF verify(SerialRoots) THEN shenandoah_assert_safepoint(r) ELSE r

\* Mutant: the handle tables gated by the wrong category.
oops_do_jni_wrong_gate(r) ==
  IF verify(SerialRoots)
    THEN Do(Do(shenandoah_assert_safepoint(r), JNIHandlesDo), VMGlobalDo)
    ELSE r

oops_do_jni(r) ==
  IF verify(JNIHandleRoots)
    THEN Do(Do(shenandoah_assert_safepoint(r), JNIHandlesDo), VMGlobalDo)
    ELSE r

\* Mutant: the three weak strategies tested independently (no else).
oops_do_weak_no_else(r) ==
  LET r1 == IF verify(WeakRoots)
              THEN Do(shenandoah_assert_safepoint(r), WeakOopsDo) ELSE r
      r2 == IF verify(SerialWeakRoots)
              THEN serial_weak_roots_do(shenandoah_assert_safepoint(r1)) ELSE r1
  IN  IF verify(ConcurrentWeakRoots) THEN concurrent_weak_roots_do(r2) ELSE r2

\* Mutant: the phase-enumerated branch without its safepoint assertion.
oops_do_weak_no_assert(r) ==
  IF verify(WeakRoots)
    THEN Do(shenandoah_assert_safepoint(r), WeakOopsDo)
    ELSE IF verify(SerialWeakRoots)
      THEN serial_weak_roots_do(r)
      ELSE IF verify(ConcurrentWeakRoots)
        THEN concurrent_weak_roots_do(r)
        ELSE r

oops_do_weak(r) ==
  IF verify(WeakRoots)
    THEN Do(shenandoah_assert_safepoint(r), WeakOopsDo)
    ELSE IF verify(SerialWeakRoots)
      THEN serial_weak_roots_do(shenandoah_assert_safepoint(r))
      ELSE IF verify(ConcurrentWeakRoots)
        THEN concurrent_weak_roots_do(r)
        ELSE r

\* Mutant: the deduplication table gated by the configured set alone.
oops_do_dedup_no_flag(r) ==
  IF verify(StringDedupRoots)
    THEN Do(shenandoah_assert_safepoint(r), DedupDo)
    ELSE r

oops_do_dedup(r) ==
  IF dedup_enabled /\ verify(StringDedupRoots)
    THEN Do(shenandoah_assert_safepoint(r), DedupDo)
    ELSE r

\* Mutant: the filtered walk requesting the threads in claim-token mode.
oops_do_threads_par(r) ==
  IF verify(ThreadRoots)
    THEN Do(shenandoah_assert_safepoint(r), ThreadsDo(TRUE, TRUE))
    ELSE r

\* Mutant: the thread registry requested without the safepoint assertion.
oops_do_threads_no_assert(r) ==
  IF verify(ThreadRoots) THEN Do(r, ThreadsDo(FALSE, TRUE)) ELSE r

oops_do_threads(r) ==
  IF verify(ThreadRoots)
    THEN Do(shenandoah_assert_safepoint(r), ThreadsDo(FALSE, TRUE))
    ELSE r

\* Mutant: the class-loader graph dispatched before the code registry.
oops_do_run_cldg_first ==
  oops_do_threads(oops_do_dedup(oops_do_weak(oops_do_jni(
    oops_do_serial(oops_do_code(oops_do_cldg(Run0)))))))

\* Mutant: thread roots dispatched before the deduplication table.
oops_do_run_threads_early ==
  oops_do_dedup(oops_do_threads(oops_do_weak(oops_do_jni(
    oops_do_serial(oops_do_cldg(oops_do_code(Run0)))))))

\* void oops_do(OopClosure* oops), between the resetter's two ends
oops_do_run ==
  oops_do_threads(oops_do_dedup(oops_do_weak(oops_do_jni(
    oops_do_serial(oops_do_cldg(oops_do_code(Run0)))))))

\* Mutant: the full walk honouring the configured set for the weak walk.
roots_do_run_filtered ==
  LET r1 == shenandoah_assert_safepoint(Run0)
      r2 == Do(r1, BlobsDo)
      r3 == Do(r2, CldDo)
      r4 == Do(Do(r3, JNIHandlesDo), VMGlobalDo)
      r5 == IF verify(WeakRoots) THEN Do(r4, WeakOopsDo) ELSE r4
      r6 == IF dedup_enabled THEN Do(r5, DedupDo) ELSE r5
  IN  Do(r6, ThreadsDo(TRUE, TRUE))

\* Mutant: the safepoint assertion placed after the first request.
roots_do_run_late_assert ==
  LET r1 == Do(Run0, BlobsDo)
      r2 == shenandoah_assert_safepoint(r1)
      r3 == Do(r2, CldDo)
      r4 == Do(Do(r3, JNIHandlesDo), VMGlobalDo)
      r5 == Do(r4, WeakOopsDo)
      r6 == IF dedup_enabled THEN Do(r5, DedupDo) ELSE r5
  IN  Do(r6, ThreadsDo(TRUE, TRUE))

\* void roots_do(OopClosure* oops), between the resetter's two ends
roots_do_run ==
  LET r1 == shenandoah_assert_safepoint(Run0)
      r2 == Do(r1, BlobsDo)
      r3 == Do(r2, CldDo)
      r4 == Do(Do(r3, JNIHandlesDo), VMGlobalDo)
      r5 == Do(r4, WeakOopsDo)
      r6 == IF dedup_enabled THEN Do(r5, DedupDo) ELSE r5
  IN  Do(r6, ThreadsDo(TRUE, TRUE))

\* Mutant: the strong walk also walking the compiled-code registry.
strong_roots_do_run_blobs ==
  LET r1 == shenandoah_assert_safepoint(Run0)
      r2 == Do(Do(r1, BlobsDo), RootsCldDo)
      r3 == Do(Do(r2, JNIHandlesDo), VMGlobalDo)
  IN  Do(r3, ThreadsDo(TRUE, TRUE))

\* Mutant: the strong walk also visiting the deduplication table.
strong_roots_do_run_dedup ==
  LET r1 == shenandoah_assert_safepoint(Run0)
      r2 == Do(r1, RootsCldDo)
      r3 == Do(Do(r2, JNIHandlesDo), VMGlobalDo)
      r4 == IF dedup_enabled THEN Do(r3, DedupDo) ELSE r3
  IN  Do(r4, ThreadsDo(TRUE, TRUE))

\* void strong_roots_do(OopClosure* oops), between the resetter's two ends
strong_roots_do_run ==
  LET r1 == shenandoah_assert_safepoint(Run0)
      r2 == Do(r1, RootsCldDo)
      r3 == Do(Do(r2, JNIHandlesDo), VMGlobalDo)
  IN  Do(r3, ThreadsDo(TRUE, TRUE))

\* ----------------------------------------------- ShenandoahGCStateResetter
\* The constructor: the two snapshotted members.
ShenandoahGCStateResetter ==
  [_gc_state |-> gc_state,
   _concurrent_weak_root_in_progress |-> concurrent_weak_root_in_progress]

\* What another thread writes to gc_state between the destructor's write
\* (line 50) and its re-read (line 51): nothing, or one value.  The two
\* accesses are not synchronised with other writers.
Races == {{}} \cup {{g} : g \in GcStates}
RacedWrite(h, race) ==
  IF race = {} THEN h ELSE [h EXCEPT !.gc_state = CHOOSE g \in race : TRUE]

\* Mutant: a destructor that restores the phase state but not the flag.
ShenandoahGCStateResetter_dtor_no_flag(resetter, h, race) ==
  LET h1 == RacedWrite([h EXCEPT !.gc_state = resetter._gc_state], race)
  IN  [gc_state |-> h1.gc_state,
       concurrent_weak_root_in_progress |-> h1.concurrent_weak_root_in_progress,
       fatal |-> h1.gc_state # resetter._gc_state]

\* Mutant: a destructor without the post-write assertion.
ShenandoahGCStateResetter_dtor_no_assert(resetter, h, race) ==
  LET h1 == RacedWrite([h EXCEPT !.gc_state = resetter._gc_state], race)
  IN  [gc_state |-> h1.gc_state,
       concurrent_weak_root_in_progress |-> resetter._concurrent_weak_root_in_progress,
       fatal |-> FALSE]

\* The destructor, run on the heap state h the guarded scope has left:
\* the heap state it leaves, and whether its assertion held.
ShenandoahGCStateResetter_dtor(resetter, h, race) ==
  LET h1 == RacedWrite([h EXCEPT !.gc_state = resetter._gc_state], race)
      ok == h1.gc_state = resetter._gc_state
  IN  [gc_state |-> h1.gc_state,
       concurrent_weak_root_in_progress |->
         IF ok THEN resetter._concurrent_weak_root_in_progress
               ELSE h1.concurrent_weak_root_in_progress,
       fatal |-> ~ok]

\* ------------------------------------------------------- Threads (runtime)
\* Threads::possibly_parallel_oops_do(is_par, ...): the threads visited.
ThreadsVisited(is_par) ==
  IF is_par
    THEN {t \in JavaThreads : threads_do_token[t] # thread_claim_token}
    ELSE JavaThreads

\* ... and the claim tokens it leaves.
ThreadsClaimed(is_par) ==
  IF is_par THEN [t \in JavaThreads |-> thread_claim_token] ELSE threads_do_token

\* No RootTypes operation applied.
NoAlg == [op |-> "none", s |-> None, c |-> None, direct |-> None, res |-> FALSE]

NoWalk ==
  [entry |-> "none", trace |-> <<>>, fatal |-> FALSE,
   gc_state0 |-> 0, cwr0 |-> FALSE, scope_written |-> FALSE, raced |-> FALSE,
   claimed0 |-> {}, visited |-> {}]

HasReq(r, req) == \E i \in 1..Len(r.trace) : r.trace[i] = req

\* Mutant: a walk that advances the thread claim token itself.
WalkFrame_new_token ==
  /\ thread_claim_token' = thread_claim_token + 1
  /\ UNCHANGED <<_types, safepoint, CodeCache_lock, ClassLoaderDataGraph_lock,
                 dedup_enabled, constructed_types, alg>>

\* What a walk leaves alone: no entry point assigns _types or calls
\* Threads::change_thread_claim_token.
WalkFrame ==
  UNCHANGED <<_types, safepoint, CodeCache_lock, ClassLoaderDataGraph_lock,
              dedup_enabled, thread_claim_token, constructed_types, alg>>

\* One walk by an entry point: resetter constructed, the body run (its
\* sources, the callback, or another thread running meanwhile may leave any
\* phase state behind), resetter destroyed unless an assertion has
\* terminated the VM.
Walk(entry, run, guarded) ==
  /\ vm = "running"
  /\ \E mg \in GcStates, mf \in BOOLEAN, race \in Races :
       /\ (run.trace = <<>> \/ run.fatal \/ ~guarded)
            => (mg = gc_state /\ mf = concurrent_weak_root_in_progress)
       /\ (run.fatal \/ ~guarded) => race = {}
       /\ race # {gc_state}
       /\ LET resetter == ShenandoahGCStateResetter
              scope == [gc_state |-> mg, concurrent_weak_root_in_progress |-> mf]
              d == IF guarded /\ ~run.fatal
                     THEN ShenandoahGCStateResetter_dtor(resetter, scope, race)
                     ELSE [gc_state |-> mg, concurrent_weak_root_in_progress |-> mf,
                           fatal |-> run.fatal]
              par == HasReq(run, ThreadsDo(TRUE, TRUE))
              seq == HasReq(run, ThreadsDo(FALSE, TRUE))
          IN  /\ gc_state' = d.gc_state
              /\ concurrent_weak_root_in_progress' = d.concurrent_weak_root_in_progress
              /\ vm' = IF d.fatal THEN "terminated" ELSE "running"
              /\ threads_do_token' = IF par THEN ThreadsClaimed(TRUE) ELSE threads_do_token
              /\ walk' = [entry |-> entry, trace |-> run.trace, fatal |-> d.fatal,
                          gc_state0 |-> gc_state,
                          cwr0 |-> concurrent_weak_root_in_progress,
                          scope_written |->
                            (mg # gc_state \/ mf # concurrent_weak_root_in_progress),
                          raced |-> race # {},
                          claimed0 |-> {t \in JavaThreads :
                                          threads_do_token[t] = thread_claim_token},
                          visited |-> IF par THEN ThreadsVisited(TRUE)
                                      ELSE IF seq THEN ThreadsVisited(FALSE) ELSE {}]
  /\ WalkFrame

OopsDo == Walk("oops_do", oops_do_run, TRUE)
RootsDo == Walk("roots_do", roots_do_run, TRUE)
StrongRootsDo == Walk("strong_roots_do", strong_roots_do_run, TRUE)
SerialWeakRootsDo == Walk("serial_weak_roots_do", serial_weak_roots_do(Run0), FALSE)
ConcurrentWeakRootsDo ==
  Walk("concurrent_weak_roots_do", concurrent_weak_roots_do(Run0), FALSE)

\* ShenandoahRootVerifier(RootTypes types): a new walker
Construct ==
  /\ vm = "running"
  /\ thread_claim_token < MaxToken
  /\ \E t \in TypeInputs : _types' = t
  /\ constructed_types' = _types'
  /\ thread_claim_token' = thread_claim_token + 1
  /\ walk' = NoWalk
  /\ UNCHANGED <<gc_state, concurrent_weak_root_in_progress, safepoint,
                 CodeCache_lock, ClassLoaderDataGraph_lock, dedup_enabled,
                 threads_do_token, vm, alg>>

\* excludes(t) called on the walker
ExcludesCall(t) ==
  /\ vm = "running"
  /\ _types' = excludes(t)
  /\ walk' = NoWalk
  /\ UNCHANGED <<gc_state, concurrent_weak_root_in_progress, safepoint,
                 CodeCache_lock, ClassLoaderDataGraph_lock, dedup_enabled,
                 thread_claim_token, threads_do_token, vm, constructed_types, alg>>

Excludes == \E t \in ExcludeInputs : ExcludesCall(t)

\* ------------------------------------------------------------ environment
\* A safepoint begins or ends.
SafepointToggle ==
  /\ vm = "running"
  /\ safepoint' = ~safepoint
  /\ walk' = NoWalk
  /\ UNCHANGED <<_types, gc_state, concurrent_weak_root_in_progress,
                 CodeCache_lock, ClassLoaderDataGraph_lock, dedup_enabled,
                 thread_claim_token, threads_do_token, vm, constructed_types, alg>>

\* The calling thread takes or releases CodeCache_lock.
CodeCacheLockToggle ==
  /\ vm = "running"
  /\ CodeCache_lock' = ~CodeCache_lock
  /\ walk' = NoWalk
  /\ UNCHANGED <<_types, gc_state, concurrent_weak_root_in_progress, safepoint,
                 ClassLoaderDataGraph_lock, dedup_enabled,
                 thread_claim_token, threads_do_token, vm, constructed_types, alg>>

\* The calling thread takes or releases ClassLoaderDataGraph_lock.
CLDGLockToggle ==
  /\ vm = "running"
  /\ ClassLoaderDataGraph_lock' = ~ClassLoaderDataGraph_lock
  /\ walk' = NoWalk
  /\ UNCHANGED <<_types, gc_state, concurrent_weak_root_in_progress, safepoint,
                 CodeCache_lock, dedup_enabled,
                 thread_claim_token, threads_do_token, vm, constructed_types, alg>>

\* A real collection cycle: it moves the phase state, and its root scan
\* advances the claim token and claims every thread with it.
CollectionCycle ==
  /\ vm = "running"
  /\ thread_claim_token < MaxToken
  /\ \E g \in GcStates, f \in BOOLEAN :
       /\ gc_state' = g
       /\ concurrent_weak_root_in_progress' = f
  /\ thread_claim_token' = thread_claim_token + 1
  /\ threads_do_token' = [t \in JavaThreads |-> thread_claim_token + 1]
  /\ walk' = NoWalk
  /\ UNCHANGED <<_types, safepoint, CodeCache_lock, ClassLoaderDataGraph_lock,
                 dedup_enabled, vm, constructed_types, alg>>

\* The state after a first walker has been constructed.
Init ==
  /\ _types \in TypeInputs
  /\ gc_state = 0
  /\ concurrent_weak_root_in_progress = FALSE
  /\ safepoint \in BOOLEAN
  /\ CodeCache_lock = FALSE
  /\ ClassLoaderDataGraph_lock = FALSE
  /\ dedup_enabled \in BOOLEAN
  /\ thread_claim_token = 1
  /\ threads_do_token = [t \in JavaThreads |-> 0]
  /\ vm = "running"
  /\ walk = NoWalk
  /\ constructed_types = _types
  /\ alg = NoAlg

Next ==
  \/ OopsDo
  \/ RootsDo
  \/ StrongRootsDo
  \/ SerialWeakRootsDo
  \/ ConcurrentWeakRootsDo
  \/ Construct
  \/ Excludes
  \/ SafepointToggle
  \/ CodeCacheLockToggle
  \/ CLDGLockToggle
  \/ CollectionCycle

Spec == Init /\ [][Next]_vars

TypeOK ==
  /\ _types \subseteq AllRoots
  /\ gc_state \in GcStates
  /\ thread_claim_token \in 1..MaxToken
  /\ vm \in {"running", "terminated"}

\* --------------------------------------------- the RootTypes operations
\* A second specification applies combine, excludes and verify to every
\* mask over the defined categories and the top bit of the uint.
MaskBits == AllRoots \cup {31}
OperandInputs ==
  Categories
    \cup {None, AllRoots, {31}, AllRoots \cup {31},
          combine(WeakRoots, SerialWeakRoots), combine(CodeRoots, ThreadRoots)}

TypesFrame ==
  UNCHANGED <<gc_state, concurrent_weak_root_in_progress, safepoint,
              CodeCache_lock, ClassLoaderDataGraph_lock, dedup_enabled,
              thread_claim_token, threads_do_token, vm, walk>>

\* A walker is given combine(_types, c); what excludes(c) yields on
\* _types itself is noted first.
CombineStep ==
  /\ alg.op = "none"
  /\ \E c \in OperandInputs :
       /\ _types' = combine(_types, c)
       /\ alg' = [op |-> "combine", s |-> _types, c |-> c,
                  direct |-> excludes(c), res |-> FALSE]
  /\ constructed_types' = _types'
  /\ TypesFrame

\* excludes(c) on the combined walker.
ExcludeStep ==
  /\ alg.op = "combine"
  /\ _types' = excludes(alg.c)
  /\ alg' = [alg EXCEPT !.op = "combine_excludes"]
  /\ UNCHANGED constructed_types
  /\ TypesFrame

\* verify(c) on the walker.
VerifyStep ==
  /\ alg.op = "none"
  /\ \E c \in OperandInputs :
       alg' = [op |-> "verify", s |-> _types, c |-> c,
               direct |-> None, res |-> verify(c)]
  /\ UNCHANGED <<_types, constructed_types>>
  /\ TypesFrame

TypesInit ==
  /\ _types \in SUBSET MaskBits
  /\ constructed_types = _types
  /\ alg = NoAlg
  /\ gc_state = 0
  /\ concurrent_weak_root_in_progress = FALSE
  /\ safepoint = FALSE
  /\ CodeCache_lock = FALSE
  /\ ClassLoaderDataGraph_lock = FALSE
  /\ dedup_enabled = FALSE
  /\ thread_claim_token = 1
  /\ threads_do_token = [t \in JavaThreads |-> 0]
  /\ vm = "running"
  /\ walk = NoWalk

TypesNext ==
  \/ CombineStep
  \/ ExcludeStep
  \/ VerifyStep

SpecTypes == TypesInit /\ [][TypesNext]_vars

\* ---------------------------------------------------------------- claims
Trace == walk.trace
Sources == [i \in 1..Len(Trace) |-> Trace[i].src]
Requested(req) == \E i \in 1..Len(Trace) : Trace[i] = req
RequestedSrc(src) == \E i \in 1..Len(Trace) : Trace[i].src = src
Returned == walk.entry # "none" /\ ~walk.fatal

\* The walk was terminated by an assertion of its body (and not by the
\* resetter's).
AssertionFailed == walk.fatal /\ ~walk.raced

\* The category whose source a request goes to.
CategoryOf(req) ==
  CASE req.src = BlobsDo.src -> CodeRoots
    [] req.src = CldDo.src -> CLDGRoots
    [] req.src = RootsCldDo.src -> CLDGRoots
    [] req.src = JNIHandlesDo.src -> JNIHandleRoots
    [] req.src = VMGlobalDo.src -> JNIHandleRoots
    [] req.src = WeakOopsDo.src -> WeakRoots
    [] req.src = PhaseDo(0).src -> SerialWeakRoots
    [] req.src = StorageDo(0).src -> ConcurrentWeakRoots
    [] req.src = DedupDo.src -> StringDedupRoots
    [] req.src = ThreadsSrc -> ThreadRoots

\* C1: after a walk by oops_do, roots_do or strong_roots_do has returned,
\* gc_state and the concurrent-weak-root flag equal the values they had when
\* the walk started, whatever was written to them during the walk, for
\* every configured set and after any sequence of earlier walks.
C1_GuardRestore ==
  (walk.entry \in EntryPoints /\ ~walk.fatal)
    => /\ gc_state = walk.gc_state0
       /\ concurrent_weak_root_in_progress = walk.cwr0

\* A walk that started in a phase state a collection cycle had left, had
\* the state written during its scope, and returned.
C1_Witness ==
  /\ walk.entry \in EntryPoints
  /\ ~walk.fatal
  /\ walk.scope_written
  /\ walk.cwr0
  /\ walk.gc_state0 = MaxGcState

\* C2: roots_do at a safepoint, whatever the configured set, requests the
\* compiled-code registry, the full class-loader graph, the handle tables,
\* the full weak walk, the deduplication table when enabled, and the thread
\* registry, each exactly once and in that order.
C2_RootsDoCanonical ==
  (walk.entry = "roots_do" /\ safepoint)
    => /\ ~AssertionFailed
       /\ Sources =
            <<BlobsDo.src, CldDo.src, JNIHandlesDo.src, VMGlobalDo.src, WeakOopsDo.src>>
              \o (IF dedup_enabled THEN <<DedupDo.src>> ELSE <<>>)
              \o <<ThreadsSrc>>

\* roots_do returned on a walker configured with no category at all.
C2_Witness ==
  /\ walk.entry = "roots_do"
  /\ ~walk.fatal
  /\ _types = None
  /\ dedup_enabled
  /\ Len(Trace) = 7

\* C3: in a walk by any of the three entry points the thread-root request
\* is the last request; a returned roots_do or strong_roots_do, and a
\* returned oops_do whose set contains ThreadRoots, ends with it.
C3_ThreadRootsLast ==
  walk.entry \in EntryPoints
    => /\ \A i \in 1..Len(Trace) : Trace[i].src = ThreadsSrc => i = Len(Trace)
       /\ (~walk.fatal /\ (walk.entry # "oops_do" \/ verify(ThreadRoots)))
            => (Len(Trace) > 0 /\ Trace[Len(Trace)].src = ThreadsSrc)

\* A filtered walk that requested the deduplication table and then threads.
C3_Witness ==
  /\ walk.entry = "oops_do"
  /\ ~walk.fatal
  /\ Requested(DedupDo)
  /\ Trace[Len(Trace)].src = ThreadsSrc

\* C4: oops_do requests no source whose category is not in the configured
\* set; configured with {CodeRoots} it requests the compiled-code registry
\* and nothing else.
C4_FilteredOnlySelected ==
  walk.entry = "oops_do"
    => /\ \A i \in 1..Len(Trace) : CategoryOf(Trace[i]) \subseteq _types
       /\ _types = CodeRoots => \A i \in 1..Len(Trace) : Trace[i] = BlobsDo

\* A filtered walk over {CodeRoots} that requested the code registry.
C4_Witness ==
  /\ walk.entry = "oops_do"
  /\ _types = CodeRoots
  /\ Trace = <<BlobsDo>>

\* C5: in an oops_do walk at most one weak strategy runs: the full walk
\* only if WeakRoots is in the set, the phase-enumerated walk only if
\* SerialWeakRoots is in it and WeakRoots is not, the concurrent-storage
\* walk only if ConcurrentWeakRoots is in it and neither other is; a
\* returned walk over a set containing WeakRoots ran the full walk.
C5_WeakPriority ==
  walk.entry = "oops_do"
    => LET full == RequestedSrc(WeakOopsDo.src)
           serial == RequestedSrc(PhaseDo(0).src)
           conc == RequestedSrc(StorageDo(0).src)
       IN  /\ full => (verify(WeakRoots) /\ ~serial /\ ~conc)
           /\ serial => (verify(SerialWeakRoots) /\ ~verify(WeakRoots) /\ ~conc)
           /\ conc => /\ verify(ConcurrentWeakRoots)
                      /\ ~verify(WeakRoots)
                      /\ ~verify(SerialWeakRoots)
           /\ (~walk.fatal /\ verify(WeakRoots)) => full

\* A returned filtered walk over a set holding WeakRoots and SerialWeakRoots.
C5_Witness ==
  /\ walk.entry = "oops_do"
  /\ ~walk.fatal
  /\ verify(combine(WeakRoots, SerialWeakRoots))
  /\ Requested(WeakOopsDo)

\* C6 as stated: strong_roots_do at a safepoint requests the compiled-code
\* registry, the strong subset of the class-loader graph, the handle
\* tables, and thread roots last.
C6_StrongRootsRequestCodeRegistry ==
  (walk.entry = "strong_roots_do" /\ safepoint)
    => /\ ~AssertionFailed
       /\ Requested(BlobsDo)
       /\ Requested(RootsCldDo)
       /\ Requested(JNIHandlesDo)
       /\ Requested(VMGlobalDo)
       /\ Trace[Len(Trace)].src = ThreadsSrc

\* C6, amended: strong_roots_do at a safepoint, for every configured set,
\* requests the strong subset of the class-loader graph, the handle tables
\* and then thread roots last, and issues no request to the compiled-code
\* registry: the code-blob closure it builds is only handed to the
\* thread-root traversal.
C6_StrongRoots ==
  (walk.entry = "strong_roots_do" /\ safepoint)
    => /\ ~AssertionFailed
       /\ Trace = <<RootsCldDo, JNIHandlesDo, VMGlobalDo, ThreadsDo(TRUE, TRUE)>>
       /\ ~Requested(BlobsDo)

\* strong_roots_do returned on a walker whose set contains CodeRoots.
C6_Witness ==
  /\ walk.entry = "strong_roots_do"
  /\ ~walk.fatal
  /\ verify(CodeRoots)
  /\ Len(Trace) = 4

\* C7: strong_roots_do never requests the weak-reference processor (full,
\* phase-enumerated or concurrent-storage walk) nor the deduplication
\* table, for every configured set, deduplication enabled or not.
C7_StrongNoWeakNoDedup ==
  walk.entry = "strong_roots_do"
    => \A i \in 1..Len(Trace) :
         Trace[i].src \notin
           {WeakOopsDo.src, PhaseDo(0).src, StorageDo(0).src, DedupDo.src}

\* strong_roots_do returned with deduplication enabled, on a walker whose
\* set contains the weak and the deduplication categories.
C7_Witness ==
  /\ walk.entry = "strong_roots_do"
  /\ ~walk.fatal
  /\ dedup_enabled
  /\ _types = AllRoots

\* C8: roots_do and strong_roots_do called outside a safepoint terminate
\* the VM on the safepoint assertion before any source is requested; a
\* walk by either that requested a source ran at a safepoint.
C8_SafepointAsserted ==
  walk.entry \in {"roots_do", "strong_roots_do"}
    => /\ ~safepoint => (walk.fatal /\ vm = "terminated" /\ Trace = <<>>)
       /\ Trace # <<>> => safepoint

\* roots_do called outside a safepoint has terminated the VM.
C8_Witness ==
  /\ walk.entry = "roots_do"
  /\ ~safepoint
  /\ vm = "terminated"

\* The storages / phases a weak traversal has visited.
AllStoragesVisited == \A i \in 1..NumWeakStorages : Requested(StorageDo(i))
AllPhasesVisited == \A i \in 1..NumSerialPhases : Requested(PhaseDo(i))
NoPhaseVisited == ~RequestedSrc(PhaseDo(0).src)

\* oops_do reaches its weak dispatch outside a safepoint: every category
\* selected before it has its precondition.
ReachesWeakDispatch ==
  /\ verify(CodeRoots) => CodeCache_lock
  /\ verify(CLDGRoots) => ClassLoaderDataGraph_lock
  /\ ~verify(SerialRoots)
  /\ ~verify(JNIHandleRoots)

OnlyConcurrentWeak ==
  verify(ConcurrentWeakRoots) /\ ~verify(WeakRoots) /\ ~verify(SerialWeakRoots)

\* C9 as stated: outside a safepoint the concurrent-storage traversal
\* (through oops_do or called itself) visits every weak storage, and the
\* phase-enumerated traversal (through oops_do or called itself) fails
\* the safepoint assertion and visits no weak phase.
C9_SerialWeakAssertsItself ==
  ~safepoint
    => /\ walk.entry = "concurrent_weak_roots_do"
            => (~walk.fatal /\ AllStoragesVisited)
       /\ (walk.entry = "oops_do" /\ OnlyConcurrentWeak /\ ReachesWeakDispatch)
            => AllStoragesVisited
       /\ (walk.entry = "oops_do" /\ verify(SerialWeakRoots) /\ ~verify(WeakRoots))
            => (walk.fatal /\ NoPhaseVisited)
       /\ walk.entry = "serial_weak_roots_do"
            => (walk.fatal /\ NoPhaseVisited)

\* C9, amended: outside a safepoint the concurrent-storage traversal
\* (through oops_do or called itself) visits every weak storage; the
\* phase-enumerated traversal fails the safepoint assertion and visits no
\* weak phase when it is dispatched by oops_do, which holds the assertion;
\* serial_weak_roots_do itself asserts nothing and, called directly,
\* visits every serial phase.
C9_WeakStrategiesOutsideSafepoint ==
  ~safepoint
    => /\ walk.entry = "concurrent_weak_roots_do"
            => (~walk.fatal /\ AllStoragesVisited)
       /\ (walk.entry = "oops_do" /\ OnlyConcurrentWeak /\ ReachesWeakDispatch)
            => AllStoragesVisited
       /\ (walk.entry = "oops_do" /\ verify(SerialWeakRoots) /\ ~verify(WeakRoots))
            => (walk.fatal /\ vm = "terminated" /\ NoPhaseVisited)
       /\ walk.entry = "serial_weak_roots_do"
            => (~walk.fatal /\ AllPhasesVisited)

\* oops_do over {SerialWeakRoots, ConcurrentWeakRoots} outside a safepoint
\* has terminated the VM at its weak dispatch.
C9_Witness ==
  /\ walk.entry = "oops_do"
  /\ ~safepoint
  /\ _types = combine(SerialWeakRoots, ConcurrentWeakRoots)
  /\ walk.fatal
  /\ Trace = <<>>

\* C10: every thread-root traversal of a walk uses a claim token that is
\* fresh for that walk (no thread is already claimed with it, by a prior
\* walk or by a collection cycle), so that the walk visits every thread.
C10_FreshEpochPerWalk ==
  (walk.entry \in EntryPoints /\ RequestedSrc(ThreadsSrc))
    => /\ walk.visited = JavaThreads
       /\ Requested(ThreadsDo(TRUE, TRUE)) => walk.claimed0 = {}

\* C11 as stated: a write to the phase state by another actor at any point
\* of a guarded scope is detected by the destructor's assertion, which
\* terminates the VM; it is never silently overwritten by the restore.
C11_AnyScopeWriteDetected ==
  (walk.entry \in EntryPoints /\ (walk.scope_written \/ walk.raced))
    => (walk.fatal /\ vm = "terminated")

\* C11, amended: the destructor's assertion detects, and terminates the VM
\* on, only a write by another actor that lands between the destructor's
\* write-back and its re-read of gc_state; a write made earlier in the
\* guarded scope is overwritten by the restore without being detected.
C11_OnlyPostWriteRaceDetected ==
  walk.entry \in EntryPoints
    => /\ walk.raced
            => (walk.fatal /\ vm = "terminated" /\ gc_state # walk.gc_state0)
       /\ (walk.scope_written /\ ~walk.raced)
            => /\ ~walk.fatal
               /\ vm = "running"
               /\ gc_state = walk.gc_state0
               /\ concurrent_weak_root_in_progress = walk.cwr0

\* A walk whose destructor lost the race: the VM is terminated with the
\* other actor's value in gc_state.
C11_Witness ==
  /\ walk.entry \in EntryPoints
  /\ walk.raced
  /\ walk.scope_written
  /\ vm = "terminated"

\* C12: after construction with a set T0 and any sequence of excludes
\* calls and walks, _types is a subset of T0 (never widened), and a call
\* excludes(c) leaves no bit of c set in _types.
C12_NeverWidened ==
  /\ [](_types \subseteq constructed_types)
  /\ [][\A c \in ExcludeInputs : ExcludesCall(c) => (_types' \cap c = {})]_vars
  /\ [][Construct \/ (_types' \subseteq _types)]_vars

\* A walker narrowed by excludes, then walked.
C12_Witness ==
  /\ walk.entry = "oops_do"
  /\ _types # constructed_types
  /\ _types # None
  /\ constructed_types = AllRoots

\* C13: for all masks s and c, excluding c from combine(s, c) yields the
\* same mask, bit for bit, as excluding c from s.
C13_ExcludeAfterCombine ==
  alg.op = "combine_excludes" => _types = alg.direct

\* c was excluded from combine(s, c) where c and s overlap in part and s
\* has bits outside c.
C13_Witness ==
  /\ alg.op = "combine_excludes"
  /\ alg.s \cap alg.c # {}
  /\ ~(alg.c \subseteq alg.s)
  /\ _types # {}

\* C14: verify(type) is true iff every bit of type is set in _types: it is
\* false for a multi-bit aggregate of which only some bits are set, and
\* true of every individual category on a walker holding AllRoots.
C14_VerifyAllBits ==
  /\ alg.op = "verify" => (alg.res <=> \A b \in alg.c : b \in _types)
  /\ (alg.op = "verify" /\ alg.c \cap _types # alg.c) => ~alg.res
  /\ AllRoots \subseteq _types => \A c \in Categories : verify(c)

\* verify of a two-bit aggregate returned false on a walker holding one
\* of the two bits.
C14_Witness ==
  /\ alg.op = "verify"
  /\ Cardinality(alg.c) = 2
  /\ Cardinality(alg.c \cap _types) = 1
  /\ ~alg.res

\* The place of a request's source in the fixed order of oops_do.
StageOf(req) ==
  CASE req.src = BlobsDo.src -> 1
    [] req.src = CldDo.src -> 2
    [] req.src = RootsCldDo.src -> 2
    [] req.src = JNIHandlesDo.src -> 3
    [] req.src = VMGlobalDo.src -> 3
    [] req.src = WeakOopsDo.src -> 4
    [] req.src = PhaseDo(0).src -> 4
    [] req.src = StorageDo(0).src -> 4
    [] req.src = DedupDo.src -> 5
    [] req.src = ThreadsSrc -> 6

\* C15: for every configured set the requests of oops_do follow the fixed
\* order code registry, class-loader graph, handle tables, one weak
\* strategy, deduplication table, thread registry; no request is issued
\* twice; the requests are issued one after the other.
C15_FixedOrder ==
  walk.entry = "oops_do"
    => \A i, j \in 1..Len(Trace) :
         i < j
           => /\ Trace[i] # Trace[j]
              /\ StageOf(Trace[i]) <= StageOf(Trace[j])
              /\ StageOf(Trace[i]) = StageOf(Trace[j])
                   => \/ Trace[i] = JNIHandlesDo /\ Trace[j] = VMGlobalDo
                      \/ /\ StageOf(Trace[i]) = 4
                         /\ Trace[i].src = Trace[j].src
                         /\ Trace[i].arg < Trace[j].arg

\* A filtered walk that went from the code registry through every weak
\* phase to the threads.
C15_Witness ==
  /\ walk.entry = "oops_do"
  /\ ~walk.fatal
  /\ Requested(BlobsDo)
  /\ Requested(CldDo)
  /\ Requested(PhaseDo(NumSerialPhases))
  /\ RequestedSrc(ThreadsSrc)

\* The categories oops_do guards with an assertion, the condition each
\* assertion tests, and the place of each in the order of StageOf (the
\* assertion of SerialRoots stands just before the handle tables).
Asserted ==
  {CodeRoots, CLDGRoots, SerialRoots, JNIHandleRoots, WeakRoots,
   SerialWeakRoots, StringDedupRoots, ThreadRoots}

Precondition(cat) ==
  IF cat = CodeRoots THEN CodeCache_lock \/ safepoint
  ELSE IF cat = CLDGRoots THEN ClassLoaderDataGraph_lock \/ safepoint
  ELSE safepoint

StageOfCategory(cat) ==
  CASE cat = CodeRoots -> 1
    [] cat = CLDGRoots -> 2
    [] cat = SerialRoots -> 3
    [] cat = JNIHandleRoots -> 3
    [] cat = WeakRoots -> 4
    [] cat = SerialWeakRoots -> 4
    [] cat = StringDedupRoots -> 5
    [] cat = ThreadRoots -> 6

\* A source of an asserted category is requested only under the category's
\* precondition.
RequestedUnderPrecondition ==
  \A i \in 1..Len(Trace) :
    CategoryOf(Trace[i]) \in Asserted => Precondition(CategoryOf(Trace[i]))

\* The walk has stopped at cat: terminated, with nothing requested from the
\* source of cat or from any later source.
StoppedAt(cat) ==
  /\ walk.fatal
  /\ vm = "terminated"
  /\ \A i \in 1..Len(Trace) : StageOf(Trace[i]) < StageOfCategory(cat)

\* C16 as stated: in oops_do a source is requested only under its
\* category's precondition, and a failing precondition of any selected
\* category, StringDedupRoots included, terminates the walk.
C16_EverySelectedFailureFatal ==
  walk.entry = "oops_do"
    => /\ RequestedUnderPrecondition
       /\ \A cat \in Asserted :
            (verify(cat) /\ ~Precondition(cat)) => StoppedAt(cat)

\* C16: in oops_do a source is requested only under its category's
\* precondition, and a failing precondition of a selected category
\* terminates the walk before that category's source and every later one is
\* requested; the precondition of StringDedupRoots counts only while string
\* deduplication is enabled.
C16_DispatchedFailureFatal ==
  walk.entry = "oops_do"
    => /\ RequestedUnderPrecondition
       /\ \A cat \in Asserted :
            /\ verify(cat)
            /\ ~Precondition(cat)
            /\ (cat = StringDedupRoots => dedup_enabled)
            => StoppedAt(cat)

\* A filtered walk terminated by a later category's assertion after an
\* earlier source had been requested under its lock.
C16_Witness ==
  /\ walk.entry = "oops_do"
  /\ walk.fatal
  /\ ~safepoint
  /\ Trace # <<>>

CanonicalPrefix ==
  <<BlobsDo, CldDo, JNIHandlesDo, VMGlobalDo, WeakOopsDo>>
    \o (IF dedup_enabled THEN <<DedupDo>> ELSE <<>>)

\* C18: at a safepoint oops_do over a set containing every category issues
\* the requests roots_do issues (code registry, full class-loader graph,
\* handle tables, full weak walk, deduplication table if enabled, thread
\* registry), except that it asks the thread registry in non-parallel mode,
\* which visits every thread whatever its claim state, where roots_do asks
\* in claim-token mode, which visits the threads not yet claimed.
C18_AllRootsLikeRootsDo ==
  /\ (walk.entry = "oops_do" /\ safepoint /\ verify(AllRoots))
       => /\ ~AssertionFailed
          /\ Trace = CanonicalPrefix \o <<ThreadsDo(FALSE, TRUE)>>
          /\ roots_do_run.trace = CanonicalPrefix \o <<ThreadsDo(TRUE, TRUE)>>
          /\ walk.visited = JavaThreads
  /\ (walk.entry = "roots_do" /\ safepoint)
       => /\ Trace = CanonicalPrefix \o <<ThreadsDo(TRUE, TRUE)>>
          /\ walk.visited = JavaThreads \ walk.claimed0

\* A filtered walk over AllRoots at a safepoint that visited every thread
\* although all of them had been claimed in the current epoch.
C18_Witness ==
  /\ walk.entry = "oops_do"
  /\ safepoint
  /\ verify(AllRoots)
  /\ dedup_enabled
  /\ walk.claimed0 = JavaThreads
  /\ walk.visited = JavaThreads

\* C19: no walking entry point changes the walker's configured set or
\* advances the thread claim token.  The set of a walker is changed only by
\* excludes (Construct puts a new walker in its place); the walker advances
\* the claim token once, in its constructor, and every other advance is the
\* collector's.  (A step by an entry point leaves its name in walk.entry,
\* so a step that leaves none is not one of theirs.)
C19_WalkFrame ==
  /\ [][\/ (_types' = _types /\ thread_claim_token' = thread_claim_token)
        \/ walk'.entry \notin EntryPoints
        \/ ~(OopsDo \/ RootsDo \/ StrongRootsDo)]_vars
  /\ [][(_types' # _types) => (Excludes \/ Construct)]_vars
  /\ [][(thread_claim_token' = thread_claim_token + 1) \/ ~Construct]_vars
  /\ [][(thread_claim_token' # thread_claim_token)
          => (Construct \/ CollectionCycle)]_vars

\* A second walker that was narrowed and then completed a walk with the set
\* and the claim token its construction and excludes had left.
C19_Witness ==
  /\ walk.entry \in EntryPoints
  /\ Returned
  /\ Trace # <<>>
  /\ _types # constructed_types
  /\ thread_claim_token > 1
====
